---- MODULE Spec2Model ----
(***************************************************************************)
(* Card layout and pagination engine of vaclavdekanovsky/cards.            *)
(*                                                                         *)
(* Two generators share the same paginator:                                *)
(*   "cards"     - PDFCardGenerator          (src/cards.py, 3 x 3 grid)    *)
(*   "transport" - PDFTransportCardGenerator (src/transport_cards.py, 5x4) *)
(*                                                                         *)
(* Lengths are exact multiples of a fixed sub-unit of the PDF point, so    *)
(* that every product and quotient the code computes on cm / mm / point    *)
(* quantities is an integer here: 1 pt = 127000 units, 1 mm = 72/25.4 pt   *)
(* = 360000 units, 1 cm = 3600000 units.  The code's float rounding is not *)
(* modelled; the arithmetic is the exact one.                              *)
(*                                                                         *)
(* Canvas (reportlab) behaviour used by the code: showPage() closes the    *)
(* current page and starts an empty one; save() first executes showPage()  *)
(* when the current page holds drawing data, then writes the document.     *)
(***************************************************************************)
EXTENDS Integers, Sequences, FiniteSets

VARIABLES
    gen,                 \* which generator class was constructed
    gap,                 \* self.gap, the inter-card gap given to __init__
    cards_data,          \* the deck handed to generate_pdf
    card_count,          \* generate_pdf: cards drawn so far
    page,                \* canvas: draw_card calls on the page being accumulated
    pages,               \* canvas: pages already flushed, in document order
    pc,                  \* generate_pdf: "loop" | "done"
    city_text,           \* draw_card: the city label (its length in glyphs)
    city_font_size,      \* draw_card: current font size of the city label
    city_text_width,     \* draw_card: measured width of the label
    is_long_text,        \* draw_card: long / short classification
    left_margin,         \* draw_card: left margin chosen from the classification
    right_margin,        \* draw_card: right margin
    available_width,     \* draw_card: width left for flag + gap + text
    total_content_width, \* draw_card: flag + gap + text width
    shrinks,             \* draw_card: iterations of the shrink loop so far
    prev_fit,            \* result of the previous card's fit (label, size, margin)
    fit_pc,              \* draw_card text section: "idle" | "loop" | "fitted"
    card_origin,         \* draw_card: the origin <<x, y>> it is called with
    card_data,           \* draw_card: <<record>> of the last card drawn, or <<>>
    card_ops,            \* canvas: draw operations issued by that draw_card call
    unrestored,          \* canvas: saveState calls of that call left unrestored
    prev_card,           \* <<record>> of the card drawn before it, or <<>>
    prev_ops,            \* the draw operations of that earlier call
    png_deck,            \* generate_pngs: the deck (self.cards_data)
    png_idx,             \* generate_pngs: cards of the deck processed so far
    png_files,           \* file system: paths of the files written so far
    png_log,             \* generate_pngs: per card, its canvas and its paths
    png_pc,              \* generate_pngs: "idle" | "loop" | "done" | "failed"
    img_mode,            \* create_rounded_corner_image: mode of the source
    img_alpha,           \* alpha of the source at the pixel followed
    pixel,               \* <<column, row>> of the pixel followed
    img_out,             \* <<result>> of the compositor for that pixel, or <<>>
    panel_pc             \* create_rounded_corner_image: "idle"|"open"|"done"

pdf_vars == <<gen, gap, cards_data, card_count, page, pages, pc>>
fit_vars == <<city_text, city_font_size, city_text_width, is_long_text,
              left_margin, right_margin, available_width,
              total_content_width, shrinks, prev_fit, fit_pc>>
card_vars == <<card_origin, card_data, card_ops, unrestored, prev_card, prev_ops>>
png_vars == <<png_deck, png_idx, png_files, png_log, png_pc>>
panel_vars == <<img_mode, img_alpha, pixel, img_out, panel_pc>>
vars == <<pdf_vars, fit_vars, card_vars, png_vars, panel_vars>>

----------------------------------------------------------------------------
(* Bounds of the model *)

\* longest transport list of a card record
MaxIcons == 3
\* largest deck handed to generate_pdf (two full transport pages plus one card)
MaxDeck == 41
\* longest city label, in glyphs
MaxLabelLen == 40
\* advance width of one glyph of the label font, in 1/1000 em
GlyphW == 600

----------------------------------------------------------------------------
(* Units (reportlab.lib.units) *)

pt == 127000
mm == 360000
cm == 3600000

\* gap values the constructors are given: transport default 0, main() passes
\* 1 (one point), PDFCardGenerator default 1 * mm
Gaps == {0, pt, mm}

----------------------------------------------------------------------------
(* Geometry set up by the constructors *)

page_width == 297 * mm
page_height == 210 * mm

cards_per_row == IF gen = "cards" THEN 3 ELSE 5
cards_per_col == IF gen = "cards" THEN 3 ELSE 4
cards_per_page == IF gen = "cards" THEN 9 ELSE 20

margin == 5 * mm
usable_width == page_width - 2 * margin
usable_height == page_height - 2 * margin

card_width ==
    IF gen = "cards" THEN 957 * (cm \div 100)
    ELSE (usable_width - (cards_per_row - 1) * gap) \div cards_per_row

card_height ==
    IF gen = "cards" THEN 667 * (cm \div 100)
    ELSE (usable_height - (cards_per_col - 1) * gap) \div cards_per_col

img_width == 825 * (cm \div 100)
img_height == 55 * (cm \div 10)

----------------------------------------------------------------------------
(* generate_pdf: margins and slot -> coordinate mapping *)

total_width_gapPerCard == cards_per_row * card_width + cards_per_row * gap

total_width == cards_per_row * card_width + (cards_per_row - 1) * gap

total_height == cards_per_col * card_height + (cards_per_col - 1) * gap

margin_x == (page_width - total_width) \div 2

margin_y == (page_height - total_height) \div 2

PageCardIdx_perRow(count) == count % cards_per_row

PageCardIdx(count) == count % cards_per_page

Row_byCol(idx) == idx \div cards_per_col

Row(idx) == idx \div cards_per_row

Col(idx) == idx % cards_per_row

CardX_gapOnce(col) == margin_x + col * card_width + gap

CardX(col) == margin_x + col * (card_width + gap)

CardY_noFlip(row) == margin_y + row * (card_height + gap)

CardY(row) == margin_y + (cards_per_col - 1 - row) * (card_height + gap)

NeedNewPage_offByOne(count, n) ==
    (count + 1) % cards_per_page = 0 /\ count < n

NeedNewPage_perRow(count, n) ==
    count % cards_per_row = 0 /\ count < n

\* the test guarding c.showPage(), evaluated after card_count += 1
NeedNewPage(count, n) ==
    count % cards_per_page = 0 /\ count < n

\* draw_card on the canvas, as the paginator sees it: one card of the deck
\* drawn at an origin, recorded with the slot the origin was computed from
DrawnCard(card, idx) ==
    [card |-> card, slot |-> idx, x |-> CardX(Col(idx)), y |-> CardY(Row(idx))]

FinalFlush_always(ps, p) == Append(ps, p)

\* c.save(): the open page is flushed when it holds drawing data
FinalFlush(ps, p) == IF p # <<>> THEN Append(ps, p) ELSE ps

----------------------------------------------------------------------------
(* Idle values of the text-fitting variables while generate_pdf is modelled *)

FitIdle ==
    /\ city_text = 0
    /\ city_font_size = 16
    /\ city_text_width = 0
    /\ is_long_text = FALSE
    /\ left_margin = 0
    /\ right_margin = 0
    /\ available_width = 0
    /\ total_content_width = 0
    /\ shrinks = 0
    /\ prev_fit = <<>>
    /\ fit_pc = "idle"

\* no draw_card call is being modelled element by element
CardIdle ==
    /\ card_origin = <<0, 0>>
    /\ card_data = <<>>
    /\ card_ops = <<>>
    /\ unrestored = 0
    /\ prev_card = <<>>
    /\ prev_ops = <<>>

\* generate_pngs has not been called
PngIdle ==
    /\ png_deck = <<>>
    /\ png_idx = 0
    /\ png_files = {}
    /\ png_log = <<>>
    /\ png_pc = "idle"

\* no landscape panel is being composed
PanelIdle ==
    /\ img_mode = "RGB"
    /\ img_alpha = 255
    /\ pixel = <<0, 0>>
    /\ img_out = <<>>
    /\ panel_pc = "idle"

Decks == {[i \in 1..n |-> i] : n \in 0..MaxDeck}

Init ==
    /\ gen \in {"cards", "transport"}
    /\ gap \in Gaps
    /\ cards_data \in Decks
    /\ card_count = 0
    /\ page = <<>>
    /\ pages = <<>>
    /\ pc = "loop"
    /\ FitIdle
    /\ CardIdle
    /\ PngIdle
    /\ PanelIdle

\* one iteration of `for card_data in cards_data`
DrawNext ==
    /\ pc = "loop"
    /\ card_count < Len(cards_data)
    /\ LET idx == PageCardIdx(card_count)
           drawn == Append(page, DrawnCard(cards_data[card_count + 1], idx))
       IN  /\ card_count' = card_count + 1
           /\ IF NeedNewPage(card_count + 1, Len(cards_data))
              THEN /\ pages' = Append(pages, drawn)
                   /\ page' = <<>>
              ELSE /\ pages' = pages
                   /\ page' = drawn
    /\ UNCHANGED <<gen, gap, cards_data, pc, fit_vars, card_vars, png_vars, panel_vars>>

\* the loop is exhausted: c.save()
Save ==
    /\ pc = "loop"
    /\ card_count = Len(cards_data)
    /\ pages' = FinalFlush(pages, page)
    /\ page' = <<>>
    /\ pc' = "done"
    /\ UNCHANGED <<gen, gap, cards_data, card_count, fit_vars, card_vars, png_vars, panel_vars>>

Next == DrawNext \/ Save

Spec == Init /\ [][Next]_vars

----------------------------------------------------------------------------
(* draw_card: the text and flag section (city label fitting)               *)
(*                                                                         *)
(* A label is its number of glyphs; the font metric (pdfmetrics            *)
(* stringWidth) is the sum of the glyph advances scaled by the font size,  *)
(* width = glyphs * GlyphW / 1000 * size points.                           *)

BaseFontSize == 16
MinFontSize == 8

Labels == 0..MaxLabelLen

flag_size == 1 * cm
flag_gap == 2 * (cm \div 10)
text_area_width == img_width

\* c.stringWidth(city_text, self.font_name, size)
StringWidth(label, size) == label * GlyphW * size * (pt \div 1000)

LongThreshold_noFactor == text_area_width

\* text_area_width * 0.7
LongThreshold == (7 * text_area_width) \div 10

IsLongText_textOnly(width) == width > LongThreshold

IsLongText(width) == (flag_size + flag_gap + width) > LongThreshold

LeftMargin_swapped(long) == IF long THEN 12 * (cm \div 10) ELSE 5 * (cm \div 10)

LeftMargin(long) == IF long THEN 5 * (cm \div 10) ELSE 12 * (cm \div 10)

RightMargin(long) == IF long THEN 2 * (cm \div 10) ELSE 2 * (cm \div 10)

AvailableWidth_noMargins(long) == text_area_width

\* available width for text, flag and gap
AvailableWidth(long) == text_area_width - LeftMargin(long) - RightMargin(long)

ShrinkMore_strictFit(total, avail, size) ==
    total >= avail /\ size > MinFontSize

ShrinkMore_belowFloor(total, avail, size) ==
    total > avail /\ size >= MinFontSize

\* the condition of the `while` that reduces the font size
ShrinkMore(total, avail, size) ==
    total > avail /\ size > MinFontSize

\* the generator is constructed and no document is being paginated
PdfIdle ==
    /\ gen = "cards"
    /\ gap = mm
    /\ cards_data = <<>>
    /\ card_count = 0
    /\ page = <<>>
    /\ pages = <<>>
    /\ pc = "idle"

InitFit == PdfIdle /\ FitIdle /\ CardIdle /\ PngIdle /\ PanelIdle

\* draw_card of the next card, up to the head of the shrink loop: measure the
\* label at the base size, classify it, choose the margins
FitStart ==
    /\ fit_pc \in {"idle", "fitted"}
    /\ \E label \in Labels :
          LET w == StringWidth(label, BaseFontSize)
              long == IsLongText(w)
          IN  /\ city_text' = label
              /\ city_font_size' = BaseFontSize
              /\ city_text_width' = w
              /\ is_long_text' = long
              /\ left_margin' = LeftMargin(long)
              /\ right_margin' = RightMargin(long)
              /\ available_width' = AvailableWidth(long)
              /\ total_content_width' = flag_size + flag_gap + w
    /\ shrinks' = 0
    /\ prev_fit' = IF fit_pc = "fitted"
                   THEN <<[label |-> city_text, size |-> city_font_size,
                           left_margin |-> left_margin]>>
                   ELSE prev_fit
    /\ fit_pc' = "loop"
    /\ UNCHANGED <<pdf_vars, card_vars, png_vars, panel_vars>>

\* one iteration of the shrink loop
FitShrink ==
    /\ fit_pc = "loop"
    /\ ShrinkMore(total_content_width, available_width, city_font_size)
    /\ city_font_size' = city_font_size - 1
    /\ city_text_width' = StringWidth(city_text, city_font_size - 1)
    /\ total_content_width' =
          flag_size + flag_gap + StringWidth(city_text, city_font_size - 1)
    /\ shrinks' = shrinks + 1
    /\ UNCHANGED <<city_text, is_long_text, left_margin, right_margin,
                   available_width, prev_fit, fit_pc, pdf_vars, card_vars,
                   png_vars, panel_vars>>

\* the loop condition is false: the label is drawn at the size reached
FitDone ==
    /\ fit_pc = "loop"
    /\ ~ShrinkMore(total_content_width, available_width, city_font_size)
    /\ fit_pc' = "fitted"
    /\ UNCHANGED <<city_text, city_font_size, city_text_width, is_long_text,
                   left_margin, right_margin, available_width,
                   total_content_width, shrinks, prev_fit, pdf_vars,
                   card_vars, png_vars, panel_vars>>

NextFit == FitStart \/ FitShrink \/ FitDone

SpecFit == InitFit /\ [][NextFit]_vars

\* draw_card runs sequentially: a loop iteration or exit that is possible is taken
SpecFitFair == SpecFit /\ WF_vars(FitShrink) /\ WF_vars(FitDone)

----------------------------------------------------------------------------
(* draw_card: the elements of one card, in the order they are drawn        *)
(*                                                                         *)
(* A card record says, for each asset it names, whether the asset loads:   *)
(* "absent" (the record has no such field), "ok", or "bad" (the file is    *)
(* missing or unreadable, so the load raises).  A draw operation is        *)
(* [kind, i, pos, frame]: pos holds the coordinates handed to the canvas,  *)
(* frame is "entry" while every saveState of the call has been restored    *)
(* and "unrestored" once one has not.  The horizontal position of flag,    *)
(* city and country comes from the fitting section above; their pos holds  *)
(* the vertical anchor only.                                               *)

corner_font_size == 16

AssetStates == {"absent", "ok", "bad"}

IconLists == UNION {[1..n -> {"ok", "bad"}] : n \in 0..MaxIcons}

Transports ==
    {[kind |-> "absent", icons |-> <<>>], [kind |-> "notlist", icons |-> <<>>]}
        \cup {[kind |-> "list", icons |-> l] : l \in IconLists}

Records ==
    [image : AssetStates, flag : AssetStates, continent : AssetStates,
     transport : Transports]

\* generate_pngs draws every card at (0, 0); generate_pdf at a grid slot
CardOrigins == {<<0, 0>>, <<CardX(1), CardY(0)>>}

Op(kind, i, pos, frame) == [kind |-> kind, i |-> i, pos |-> pos, frame |-> frame]

\* the main image with its rounded corner, when it loads
PanelOps(r, x, y) ==
    IF r.image = "ok"
    THEN <<Op("panel", 0, <<x, y + card_height - img_height,
                            img_width, img_height>>, "entry")>>
    ELSE <<>>

FlagOps(r, x, y) ==
    IF r.flag = "ok"
    THEN <<Op("flag", 0, <<y + 25 * (cm \div 100)>>, "entry")>>
    ELSE <<>>

\* city name, then country name 0.4 cm below it
TextOps(r, x, y) ==
    <<Op("city", 0, <<y + 55 * (cm \div 100)>>, "entry"),
      Op("country", 0, <<y + 55 * (cm \div 100) - 4 * (cm \div 10)>>, "entry")>>

continent_size == 13 * (cm \div 10)

ContinentOps(r, x, y) ==
    IF r.continent = "ok"
    THEN <<Op("continent", 0,
              <<x + card_width - continent_size - 1 * (cm \div 10),
                y + card_height - continent_size - 2 * (cm \div 10),
                continent_size, continent_size>>, "entry")>>
    ELSE <<>>

icon_size == 1 * cm
icon_spacing == 1 * (cm \div 10)
sidebar_width == card_width - img_width

IconX(x) == x + img_width + (sidebar_width - icon_size) \div 2

TotalIconHeight(n) == n * icon_size + (n - 1) * icon_spacing

IconStartY(y, n) ==
    (y + card_height - img_height)
        + (img_height - TotalIconHeight(n)) \div 2
        + TotalIconHeight(n) - icon_size - 5 * (cm \div 10)

IconY_upward(y, n, i) == IconStartY(y, n) + i * (icon_size + icon_spacing)

\* icon_y of the icon at 0-based list index i of n
IconY(y, n, i) == IconStartY(y, n) - i * (icon_size + icon_spacing)

HasTransportList(r) == r.transport.kind = "list"

\* 1-based position of the first icon that fails to load, Len + 1 if none
FirstBad(icons) ==
    IF \E k \in 1..Len(icons) : icons[k] = "bad"
    THEN CHOOSE k \in 1..Len(icons) :
            /\ icons[k] = "bad"
            /\ \A j \in 1..(k - 1) : icons[j] = "ok"
    ELSE Len(icons) + 1

\* the icon loop aborted by a failing load: its saveState is never restored
IconLoopAborted(r) ==
    HasTransportList(r) /\ FirstBad(r.transport.icons) <= Len(r.transport.icons)

TransportOps_fieldRequired(r, x, y) ==
    IF r.transport.kind = "absent"
    THEN <<Op("error", 0, <<>>, "entry")>>
    ELSE <<>>

\* the transport icons: one try around the whole loop, so the first failing
\* load ends the loop
TransportOps(r, x, y) ==
    IF HasTransportList(r)
    THEN LET icons == r.transport.icons
             n == Len(icons)
         IN  [k \in 1..(FirstBad(icons) - 1) |->
                 Op("transport", k - 1, <<IconX(x), IconY(y, n, k - 1),
                                         icon_size, icon_size>>, "entry")]
    ELSE <<>>

\* the frame in which whatever follows the icon loop is drawn
FrameAfterIcons(r) == IF IconLoopAborted(r) THEN "unrestored" ELSE "entry"

CornerOps(r, x, y) ==
    <<Op("corner", 0,
         <<x + img_width + (card_width - img_width) \div 2,
           y + (card_height - img_height) \div 2 - (corner_font_size * pt) \div 4>>,
         FrameAfterIcons(r))>>

\* draw_card_border: the rounded rectangle around the card
CardBorder(x, y) == <<x, y, card_width, card_height>>

ImageBorder_notExtended(x, y) ==
    <<x + img_width, y, x + img_width, y + img_height,
      x, y, x + card_width, y>>

\* draw_image_border: the right border line, then the bottom border line,
\* each as <<x1, y1, x2, y2>>
ImageBorder(x, y) ==
    <<x + img_width, y - (card_height - img_height), x + img_width, y + img_height,
      x, y, x + card_width, y>>

BorderOps(r, x, y) ==
    <<Op("card_border", 0, CardBorder(x, y), FrameAfterIcons(r)),
      Op("panel_border", 0, ImageBorder(x, y + card_height - img_height),
         FrameAfterIcons(r))>>

CardOps_abortOnPanel(r, x, y) ==
    IF r.image = "bad" THEN <<>>
    ELSE PanelOps(r, x, y) \o FlagOps(r, x, y) \o TextOps(r, x, y)
            \o ContinentOps(r, x, y) \o TransportOps(r, x, y)
            \o CornerOps(r, x, y) \o BorderOps(r, x, y)

CardOps_bordersFirst(r, x, y) ==
    BorderOps(r, x, y) \o PanelOps(r, x, y) \o FlagOps(r, x, y)
        \o TextOps(r, x, y) \o ContinentOps(r, x, y) \o TransportOps(r, x, y)
        \o CornerOps(r, x, y)

\* everything one draw_card call draws
CardOps(r, x, y) ==
    PanelOps(r, x, y) \o FlagOps(r, x, y) \o TextOps(r, x, y)
        \o ContinentOps(r, x, y) \o TransportOps(r, x, y)
        \o CornerOps(r, x, y) \o BorderOps(r, x, y)

InitCard ==
    /\ PdfIdle
    /\ FitIdle
    /\ PngIdle
    /\ PanelIdle
    /\ card_origin \in CardOrigins
    /\ card_data = <<>>
    /\ card_ops = <<>>
    /\ unrestored = 0
    /\ prev_card = <<>>
    /\ prev_ops = <<>>

\* draw_card(c, x, y, r) on a fresh canvas state, for the next card of the
\* deck; the model follows a card and the card drawn after it
DrawCard(r) ==
    /\ prev_card = <<>>
    /\ card_data' = <<r>>
    /\ card_ops' = CardOps(r, card_origin[1], card_origin[2])
    /\ unrestored' = IF IconLoopAborted(r) THEN 1 ELSE 0
    /\ prev_card' = card_data
    /\ prev_ops' = card_ops
    /\ UNCHANGED <<card_origin, pdf_vars, fit_vars, png_vars, panel_vars>>

NextCard == \E r \in Records : DrawCard(r)

SpecCard == InitCard /\ [][NextCard]_vars

----------------------------------------------------------------------------
(* The document as emitted so far: flushed pages, then the open page *)

Document == IF page # <<>> THEN Append(pages, page) ELSE pages

DeckSize == Len(cards_data)

\* every card drawn so far, with the 1-based number of the page it is on
Drawn ==
    UNION {{[pg |-> k, pos |-> j, rec |-> Document[k][j]] :
                j \in 1..Len(Document[k])} : k \in 1..Len(Document)}

CeilDiv(a, b) == (a + b - 1) \div b

----------------------------------------------------------------------------
\* C1: for a deck of size N > 0 generate_pdf emits exactly ceil(N / P) pages
\* (showPage flushes plus the final flush of save); a deck that is an exact
\* multiple of P gets no trailing blank page.
C1_PageCount ==
    (pc = "done" /\ DeckSize > 0) =>
        /\ Len(pages) = CeilDiv(DeckSize, cards_per_page)
        /\ \A k \in 1..Len(pages) : pages[k] # <<>>

C1_Witness ==
    /\ pc = "done"
    /\ gen = "cards"
    /\ DeckSize = 9
    /\ Len(pages) = 1

\* C2: every page but the last holds exactly cards_per_page cards; the last
\* holds N mod cards_per_page cards when that is nonzero, else cards_per_page.
C2_PageFill ==
    (pc = "done" /\ DeckSize > 0) =>
        /\ Len(pages) >= 1
        /\ \A k \in 1..(Len(pages) - 1) : Len(pages[k]) = cards_per_page
        /\ Len(pages[Len(pages)]) =
              IF DeckSize % cards_per_page # 0
              THEN DeckSize % cards_per_page
              ELSE cards_per_page

C2_Witness ==
    /\ pc = "done"
    /\ gen = "cards"
    /\ DeckSize = 10
    /\ Len(pages) = 2
    /\ Len(pages[1]) = 9
    /\ Len(pages[2]) = 1

\* C3: for an empty deck generate_pdf runs to completion and the document
\* holds 0 pages.
C3_EmptyDeck ==
    /\ (DeckSize = 0 /\ pc = "loop") => ENABLED Save
    /\ (DeckSize = 0 /\ pc = "done") => (pages = <<>> /\ card_count = 0)

C3_Witness ==
    /\ DeckSize = 0
    /\ pc = "done"
    /\ pages = <<>>

\* C4: the deck is rendered in its given order: the card at 0-based deck index
\* i is on page i div P in slot i mod P, drawn exactly once; within a page the
\* cards fill the grid row-major, top row first, left to right.
C4_DeckOrder ==
    /\ Cardinality(Drawn) = card_count
    /\ \A d \in Drawn :
          LET i == (d.pg - 1) * cards_per_page + (d.pos - 1)
          IN  /\ i < card_count
              /\ d.rec.card = cards_data[i + 1]
              /\ d.rec.slot = i % cards_per_page
              /\ d.pg - 1 = i \div cards_per_page
    /\ \A d, e \in Drawn :
          (d.pg = e.pg /\ d.pos < e.pos) =>
              \/ d.rec.y > e.rec.y
              \/ (d.rec.y = e.rec.y /\ d.rec.x < e.rec.x)
    /\ pc = "done" => card_count = DeckSize

C4_Witness ==
    /\ pc = "done"
    /\ gen = "transport"
    /\ DeckSize = 41
    /\ \E d \in Drawn : d.pg = 3 /\ d.rec.card = 41 /\ d.rec.slot = 0

\* C5: the origin of slot s is x = margin_x + (s mod cols) * (card_w + gap),
\* y = margin_y + (rows - 1 - (s div cols)) * (card_h + gap); it depends on s
\* alone, not on the page or on the cards drawn before.
C5_SlotOrigin ==
    /\ \A d \in Drawn :
          LET s == d.rec.slot
          IN  /\ 0 <= s /\ s < cards_per_page
              /\ d.rec.x = margin_x + (s % cards_per_row) * (card_width + gap)
              /\ d.rec.y = margin_y
                    + (cards_per_col - 1 - (s \div cards_per_row))
                      * (card_height + gap)
    /\ \A d, e \in Drawn :
          d.rec.slot = e.rec.slot => (d.rec.x = e.rec.x /\ d.rec.y = e.rec.y)

C5_Witness ==
    /\ gen = "transport"
    /\ gap = pt
    /\ \E d, e \in Drawn :
          d.pg = 1 /\ e.pg = 2 /\ d.rec.slot = 19 /\ e.rec.slot = 19

\* C6: on the 3 x 3 grid slot 0 is the top-left position (smallest x, largest
\* y of all slots) and slot 8 the bottom-right one (largest x, smallest y);
\* a slot drawn again on a later page gets the same (x, y).
C6_Corners3x3 ==
    gen = "cards" =>
        \A d \in Drawn :
            /\ d.rec.slot = 0 =>
                  /\ d.rec.x = margin_x
                  /\ d.rec.y + card_height = page_height - margin_y
                  /\ \A e \in Drawn : d.rec.x <= e.rec.x /\ d.rec.y >= e.rec.y
                  /\ \A e \in Drawn :
                        e.rec.slot = 8 => (d.rec.x < e.rec.x /\ d.rec.y > e.rec.y)
            /\ d.rec.slot = 8 =>
                  /\ d.rec.x + card_width = page_width - margin_x
                  /\ d.rec.y = margin_y
                  /\ \A e \in Drawn : d.rec.x >= e.rec.x /\ d.rec.y <= e.rec.y
            /\ \A e \in Drawn :
                  (e.pg > d.pg /\ e.pos = d.pos) =>
                      (e.rec.x = d.rec.x /\ e.rec.y = d.rec.y)

C6_Witness ==
    /\ gen = "cards"
    /\ \E d, e \in Drawn : d.pg = 2 /\ d.rec.slot = 0 /\ e.pg = 2 /\ e.rec.slot = 8
    /\ \E d, e \in Drawn : d.pg = 1 /\ d.rec.slot = 0 /\ e.pg = 1 /\ e.rec.slot = 8

\* C7: the grid is centred: margin = (page_dim - (n * card_dim + (n - 1) * gap)) / 2,
\* so the free space left of the first column equals the free space right of
\* the last column, and the free space below the bottom row equals the free
\* space above the top row.
C7_Centred ==
    /\ 2 * margin_x = page_width
          - (cards_per_row * card_width + (cards_per_row - 1) * gap)
    /\ 2 * margin_y = page_height
          - (cards_per_col * card_height + (cards_per_col - 1) * gap)
    /\ \A d, e \in Drawn :
          /\ (d.rec.slot % cards_per_row = 0
                /\ e.rec.slot % cards_per_row = cards_per_row - 1) =>
                d.rec.x = page_width - (e.rec.x + card_width)
          /\ (d.rec.slot \div cards_per_row = cards_per_col - 1
                /\ e.rec.slot \div cards_per_row = 0) =>
                d.rec.y = page_height - (e.rec.y + card_height)

C7_Witness ==
    /\ gap = mm
    /\ gen = "cards"
    /\ \E d, e \in Drawn : d.rec.slot = 6 /\ e.rec.slot = 2

----------------------------------------------------------------------------
\* C8: the font size chosen by the fitting loop is never below 8 and never
\* above 16, and the loop ends after at most 8 shrink steps, also when the
\* label is still over-width at size 8.
C8_FontSizeBounds ==
    /\ [](/\ MinFontSize <= city_font_size
          /\ city_font_size <= BaseFontSize
          /\ shrinks <= 8
          /\ shrinks = BaseFontSize - city_font_size)
    /\ [](fit_pc = "loop" => <>(fit_pc = "fitted"))

C8_Witness ==
    /\ fit_pc = "fitted"
    /\ city_font_size = 8
    /\ shrinks = 8
    /\ total_content_width > available_width

\* C9: a longer label never gets a larger font size than a shorter one,
\* also across the switch from the short-label margin (1.2 cm) to the
\* long-label margin (0.5 cm).
C9_FitMonotone ==
    (fit_pc = "fitted" /\ prev_fit # <<>>) =>
        /\ prev_fit[1].label <= city_text => city_font_size <= prev_fit[1].size
        /\ city_text <= prev_fit[1].label => prev_fit[1].size <= city_font_size

C9_Witness ==
    /\ fit_pc = "fitted"
    /\ prev_fit # <<>>
    /\ prev_fit[1].left_margin = 12 * (cm \div 10)
    /\ left_margin = 5 * (cm \div 10)
    /\ prev_fit[1].label < city_text
    /\ prev_fit[1].size = 16
    /\ city_font_size < 16
    /\ city_font_size > 8

\* C10 (as stated): a label whose own width at the base size is more than
\* 70% of the available width gets the 0.5 cm left margin, and a label whose
\* own width is at most 70% gets the 1.2 cm left margin.
C10_OwnWidthMargin ==
    fit_pc # "idle" =>
        /\ StringWidth(city_text, BaseFontSize) * 10 > 7 * text_area_width
              => left_margin = 5 * (cm \div 10)
        /\ StringWidth(city_text, BaseFontSize) * 10 <= 7 * text_area_width
              => left_margin = 12 * (cm \div 10)

\* C10 (amended): a label for which icon width + gap + its own width at the
\* base size is more than 70% of the available width gets the 0.5 cm left
\* margin, and one for which that sum is at most 70% gets the 1.2 cm margin.
C10_ContentWidthMargin ==
    fit_pc # "idle" =>
        LET content == 1 * cm + 2 * (cm \div 10)
                         + StringWidth(city_text, BaseFontSize)
        IN  /\ content * 10 > 7 * (825 * (cm \div 100))
                  => left_margin = 5 * (cm \div 10)
            /\ content * 10 <= 7 * (825 * (cm \div 100))
                  => left_margin = 12 * (cm \div 10)

C10_Witness ==
    /\ fit_pc = "fitted"
    /\ left_margin = 5 * (cm \div 10)
    /\ StringWidth(city_text, BaseFontSize) * 10 <= 7 * text_area_width
    /\ prev_fit # <<>>
    /\ prev_fit[1].left_margin = 12 * (cm \div 10)

\* C11: a label is classified long exactly when icon width + gap + its width
\* at the base size 16 exceeds 0.7 of the available width; the left margin
\* (0.5 cm if long, 1.2 cm otherwise) is decided once from that measurement
\* and the font shrinking does not change it.
C11_ClassifiedOnce ==
    /\ [](fit_pc # "idle" =>
            /\ is_long_text =
                  ((1 * cm + 2 * (cm \div 10) + StringWidth(city_text, 16)) * 10
                      > 7 * (825 * (cm \div 100)))
            /\ left_margin =
                  IF is_long_text THEN 5 * (cm \div 10) ELSE 12 * (cm \div 10))
    /\ [][fit_pc = "loop" =>
            (left_margin' = left_margin /\ is_long_text' = is_long_text)]_vars

C11_Witness ==
    /\ fit_pc = "fitted"
    /\ shrinks > 0
    /\ is_long_text
    /\ left_margin = 5 * (cm \div 10)
    /\ city_text_width < StringWidth(city_text, 16)

FitsAt(size) ==
    1 * cm + 2 * (cm \div 10) + StringWidth(city_text, size)
        <= 825 * (cm \div 100) - left_margin - right_margin

\* C12: the font shrinks one unit at a time and stops at the first size that
\* fits: at the end either icon + gap + width(label, size) <= available width
\* - left margin - right margin, or size = 8; the final size is the largest
\* size in 8..16 at which the content fits, when there is one.
C12_FirstFit ==
    /\ [](fit_pc = "fitted" =>
            /\ FitsAt(city_font_size) \/ city_font_size = 8
            /\ (\E s \in 8..16 : FitsAt(s)) =>
                  /\ FitsAt(city_font_size)
                  /\ \A s \in (city_font_size + 1)..16 : ~FitsAt(s))
    /\ [][city_font_size' # city_font_size =>
            (city_font_size' = city_font_size - 1 \/ city_font_size' = 16)]_vars

C12_Witness ==
    /\ fit_pc = "fitted"
    /\ city_font_size = 12
    /\ FitsAt(12)
    /\ ~FitsAt(13)

\* C13 (as stated): after fitting, flag icon, gap and city text drawn from
\* the left margin never overflow the text region: left margin + icon + gap
\* + width(label, final size) does not exceed the region width 8.25 cm.
C13_NeverOverflows ==
    fit_pc = "fitted" =>
        left_margin + 1 * cm + 2 * (cm \div 10)
            + StringWidth(city_text, city_font_size) <= 825 * (cm \div 100)

\* C13 (amended): after fitting, left margin + icon + gap + width(label,
\* final size) does not exceed the region width 8.25 cm unless the font size
\* has reached the floor 8, where the label may still overflow.
C13_OverflowOnlyAtFloor ==
    (fit_pc = "fitted" /\ city_font_size > 8) =>
        left_margin + 1 * cm + 2 * (cm \div 10)
            + StringWidth(city_text, city_font_size) <= 825 * (cm \div 100)

C13_Witness ==
    /\ fit_pc = "fitted"
    /\ city_font_size = 9
    /\ shrinks = 7
    /\ prev_fit # <<>>
    /\ prev_fit[1].size = 8
    /\ prev_fit[1].left_margin + 1 * cm + 2 * (cm \div 10)
          + StringWidth(prev_fit[1].label, 8) > 825 * (cm \div 100)

----------------------------------------------------------------------------
(* Reading the draw operations of a card *)

HasOp(ops, kind) == \E k \in 1..Len(ops) : ops[k].kind = kind

IconOps(ops) == {k \in 1..Len(ops) : ops[k].kind = "transport"}

AllIconsLoad(r) ==
    /\ r.transport.kind = "list"
    /\ \A k \in 1..Len(r.transport.icons) : r.transport.icons[k] = "ok"

\* the elements that need no asset are drawn, and no error is raised
FixedElementsDrawn(ops) ==
    /\ HasOp(ops, "city")
    /\ HasOp(ops, "country")
    /\ HasOp(ops, "corner")
    /\ HasOp(ops, "card_border")
    /\ HasOp(ops, "panel_border")
    /\ ~HasOp(ops, "error")

OriginX == card_origin[1]
OriginY == card_origin[2]

\* C14: when the main image of a card is missing or unreadable only the
\* panel is skipped: draw_card returns normally, the text, flag, continent
\* badge, transport icons, corner number and both borders of that card are
\* still drawn, and the later card of the deck is still rendered.
C14_OnlyPanelSkipped ==
    /\ (card_data # <<>> /\ card_data[1].image = "bad") =>
          /\ ~HasOp(card_ops, "panel")
          /\ FixedElementsDrawn(card_ops)
          /\ card_data[1].flag = "ok" => HasOp(card_ops, "flag")
          /\ card_data[1].continent = "ok" => HasOp(card_ops, "continent")
          /\ AllIconsLoad(card_data[1]) =>
                Cardinality(IconOps(card_ops)) = Len(card_data[1].transport.icons)
          /\ prev_card = <<>> => ENABLED NextCard
    /\ (prev_card # <<>> /\ prev_card[1].image = "bad") =>
          /\ card_data # <<>>
          /\ FixedElementsDrawn(card_ops)
          /\ card_data[1].image = "ok" => HasOp(card_ops, "panel")

C14_Witness ==
    /\ prev_card # <<>>
    /\ prev_card[1].image = "bad"
    /\ prev_card[1].flag = "ok"
    /\ prev_card[1].continent = "ok"
    /\ AllIconsLoad(prev_card[1])
    /\ Len(prev_card[1].transport.icons) = 2
    /\ Len(prev_ops) = 9
    /\ card_data[1].image = "ok"
    /\ HasOp(card_ops, "panel")

\* C15: a missing or unreadable flag, continent badge or single transport
\* icon makes draw_card skip only that element: every other element is still
\* drawn, including the transport icons that come after a failing one.
C15_OnlyFailingElementSkipped ==
    card_data # <<>> =>
        LET r == card_data[1]
        IN  /\ FixedElementsDrawn(card_ops)
            /\ r.image = "ok" => HasOp(card_ops, "panel")
            /\ r.flag = "ok" => HasOp(card_ops, "flag")
            /\ r.continent = "ok" => HasOp(card_ops, "continent")
            /\ r.transport.kind = "list" =>
                  \A k \in 1..Len(r.transport.icons) :
                      r.transport.icons[k] = "ok" =>
                          \E j \in IconOps(card_ops) : card_ops[j].i = k - 1

SameButTransport(p, q) ==
    /\ p.image = q.image
    /\ p.flag = q.flag
    /\ p.continent = q.continent

NoTransportField(r) == r.transport.kind = "absent"

EmptyTransportList(r) == r.transport.kind = "list" /\ r.transport.icons = <<>>

\* C16: a record with no transport field produces exactly the draw
\* operations of the same record with transport = []: no transport icon and
\* no error in either case.
C16_AbsentSameAsEmpty ==
    (/\ prev_card # <<>>
     /\ SameButTransport(prev_card[1], card_data[1])
     /\ \/ NoTransportField(prev_card[1]) /\ EmptyTransportList(card_data[1])
        \/ EmptyTransportList(prev_card[1]) /\ NoTransportField(card_data[1]))
    =>  /\ prev_ops = card_ops
        /\ IconOps(card_ops) = {}
        /\ ~HasOp(card_ops, "error")
        /\ unrestored = 0

C16_Witness ==
    /\ prev_card # <<>>
    /\ card_origin # <<0, 0>>
    /\ NoTransportField(prev_card[1])
    /\ EmptyTransportList(card_data[1])
    /\ SameButTransport(prev_card[1], card_data[1])
    /\ card_data[1].image = "ok"
    /\ card_data[1].flag = "ok"
    /\ Len(card_ops) = 7

ElementRank(kind) ==
    CASE kind = "panel" -> 1
      [] kind = "flag" -> 2
      [] kind = "city" -> 3
      [] kind = "country" -> 4
      [] kind = "continent" -> 5
      [] kind = "transport" -> 6
      [] kind = "corner" -> 7
      [] kind = "card_border" -> 8
      [] kind = "panel_border" -> 9
      [] OTHER -> 0

\* C17: the elements of a card are drawn in the order main panel, flag, city,
\* country, continent badge, transport icons, corner index, card border,
\* panel border; whatever is skipped, the card border and then the panel
\* border are the last two things drawn.
C17_DrawOrder ==
    card_data # <<>> =>
        /\ \A k \in 1..Len(card_ops) : ElementRank(card_ops[k].kind) > 0
        /\ \A j, k \in 1..Len(card_ops) :
              j < k =>
                  \/ ElementRank(card_ops[j].kind) < ElementRank(card_ops[k].kind)
                  \/ /\ card_ops[j].kind = "transport"
                     /\ card_ops[k].kind = "transport"
                     /\ card_ops[j].i < card_ops[k].i
        /\ Len(card_ops) >= 2
        /\ card_ops[Len(card_ops) - 1].kind = "card_border"
        /\ card_ops[Len(card_ops)].kind = "panel_border"

C17_Witness ==
    /\ card_data # <<>>
    /\ Len(card_ops) = 11
    /\ card_ops[1].kind = "panel"
    /\ card_ops[8].kind = "transport"
    /\ prev_card # <<>>
    /\ Len(prev_ops) = 5

PanelBorderPos == card_ops[Len(card_ops)].pos

\* C18 (as stated): the panel border is a vertical segment at x + img_width
\* from the card's top edge y + card_height down to the card's bottom edge
\* y, and a horizontal segment along the card's bottom edge, at height y.
C18_BorderAlongCardBottom ==
    card_data # <<>> =>
        /\ PanelBorderPos[1] = OriginX + img_width
        /\ PanelBorderPos[3] = OriginX + img_width
        /\ {PanelBorderPos[2], PanelBorderPos[4]} = {OriginY, OriginY + card_height}
        /\ PanelBorderPos[6] = OriginY
        /\ PanelBorderPos[8] = OriginY

\* C18 (amended): the panel border is a vertical segment at x + img_width
\* from the card's top edge y + card_height down to the card's bottom edge
\* y, and a horizontal segment from x to x + card_width along the panel's
\* bottom edge, at height y + card_height - img_height (coordinates as
\* handed to the canvas).
C18_BorderAlongPanelBottom ==
    card_data # <<>> =>
        /\ card_ops[Len(card_ops)].kind = "panel_border"
        /\ PanelBorderPos[1] = OriginX + img_width
        /\ PanelBorderPos[3] = OriginX + img_width
        /\ {PanelBorderPos[2], PanelBorderPos[4]} = {OriginY, OriginY + card_height}
        /\ PanelBorderPos[6] = OriginY + card_height - img_height
        /\ PanelBorderPos[8] = OriginY + card_height - img_height
        /\ {PanelBorderPos[5], PanelBorderPos[7]} = {OriginX, OriginX + card_width}

C18_Witness ==
    /\ card_data # <<>>
    /\ card_origin # <<0, 0>>
    /\ card_data[1].image = "ok"
    /\ card_ops[Len(card_ops)].kind = "panel_border"
    /\ PanelBorderPos[6] > OriginY
    /\ PanelBorderPos[2] = OriginY

FirstIconOp == CHOOSE k \in IconOps(card_ops) : \A j \in IconOps(card_ops) : k <= j
LastIconOp == CHOOSE k \in IconOps(card_ops) : \A j \in IconOps(card_ops) : k >= j

\* C19: for a record with n >= 1 transport icons the stack of icons is
\* centred vertically in the panel-height span of the sidebar: the distance
\* from the top of the first icon to the top of the span equals the distance
\* from the bottom of the last icon to the bottom of the span.
C19_IconStackCentred ==
    (/\ card_data # <<>>
     /\ AllIconsLoad(card_data[1])
     /\ Len(card_data[1].transport.icons) >= 1)
    =>  (OriginY + card_height)
            - (card_ops[FirstIconOp].pos[2] + card_ops[FirstIconOp].pos[4])
        = card_ops[LastIconOp].pos[2] - (OriginY + card_height - img_height)

\* C20: transport icons are drawn in list order from top to bottom: the icon
\* at index i is strictly above the icon at index i + 1, consecutive icons
\* are exactly icon_size + 0.1 cm apart, and all share the same x, centred
\* in the sidebar.
C20_IconsTopToBottom ==
    card_data # <<>> =>
        /\ \A k \in IconOps(card_ops) :
              /\ card_data[1].transport.icons[card_ops[k].i + 1] = "ok"
              /\ card_ops[k].pos[1] - (OriginX + img_width)
                    = (OriginX + card_width) - (card_ops[k].pos[1] + 1 * cm)
        /\ \A j, k \in IconOps(card_ops) :
              k = j + 1 =>
                  /\ card_ops[k].i = card_ops[j].i + 1
                  /\ card_ops[j].pos[2] > card_ops[k].pos[2]
                  /\ card_ops[j].pos[2] - card_ops[k].pos[2]
                        = 1 * cm + 1 * (cm \div 10)
                  /\ card_ops[j].pos[1] = card_ops[k].pos[1]
        /\ IconOps(card_ops) # {} => card_ops[FirstIconOp].i = 0

C20_Witness ==
    /\ card_data # <<>>
    /\ card_origin # <<0, 0>>
    /\ Cardinality(IconOps(card_ops)) = 3
    /\ card_ops[LastIconOp].i = 2

----------------------------------------------------------------------------
\* C28: on every page of generate_pdf (gap >= 0) the rectangles of two
\* distinct slots share no interior point; neighbours in a row are exactly
\* gap apart horizontally, neighbours in a column exactly gap apart
\* vertically, and no two cards of a row or column are closer than gap.
C28_NoOverlapExactGap ==
    \A d, e \in Drawn :
        (d.pg = e.pg /\ d.rec.slot # e.rec.slot) =>
            /\ \/ d.rec.x + card_width <= e.rec.x
               \/ e.rec.x + card_width <= d.rec.x
               \/ d.rec.y + card_height <= e.rec.y
               \/ e.rec.y + card_height <= d.rec.y
            /\ (d.rec.y = e.rec.y /\ d.rec.x < e.rec.x) =>
                  /\ e.rec.x - (d.rec.x + card_width) >= gap
                  /\ e.rec.slot = d.rec.slot + 1 =>
                        e.rec.x - (d.rec.x + card_width) = gap
            /\ (d.rec.x = e.rec.x /\ e.rec.y < d.rec.y) =>
                  /\ d.rec.y - (e.rec.y + card_height) >= gap
                  /\ e.rec.slot = d.rec.slot + cards_per_row =>
                        d.rec.y - (e.rec.y + card_height) = gap

C28_Witness ==
    /\ gen = "transport"
    /\ gap = mm
    /\ pc = "done"
    /\ \E d, e, f \in Drawn :
          /\ d.pg = 2 /\ e.pg = 2 /\ f.pg = 2
          /\ d.rec.slot = 0 /\ e.rec.slot = 1 /\ f.rec.slot = 5
          /\ d.rec.y = e.rec.y /\ e.rec.x = d.rec.x + card_width + mm
          /\ d.rec.x = f.rec.x /\ f.rec.y + card_height + mm = d.rec.y

----------------------------------------------------------------------------
\* C26: draw_card leaves the canvas graphics state as it found it: whatever
\* the record and whichever assets fail, no saveState is left without its
\* restoreState, and every element of the card is drawn in the frame the
\* call was entered with.
C26_GraphicsStateRestored ==
    card_data # <<>> =>
        /\ unrestored = 0
        /\ \A k \in 1..Len(card_ops) : card_ops[k].frame = "entry"

----------------------------------------------------------------------------
(* generate_pngs: one card-sized canvas per record, rasterised to a file.  *)
(* A file name is <<abs, dirs, stem, ext>>: whether it starts at the root, *)
(* its directory components, and the two halves os.path.splitext yields;   *)
(* a directory is the same without stem and ext.                           *)

\* longest deck handed to generate_pngs
MaxPngDeck == 3

File(abs, dirs, stem, ext) ==
    [abs |-> abs, dirs |-> dirs, stem |-> stem, ext |-> ext]

Dir(abs, dirs) == [abs |-> abs, dirs |-> dirs]

input_folder == Dir(FALSE, <<"input">>)

output_folder == Dir(FALSE, <<"output">>)

\* os.path.isabs
IsAbs(f) == f.abs

\* os.path.join(directory, name) for a directory and a file name
PathJoin_concat(d, f) == File(d.abs, d.dirs \o f.dirs, f.stem, f.ext)

PathJoin(d, f) ==
    IF IsAbs(f) THEN f ELSE File(d.abs, d.dirs \o f.dirs, f.stem, f.ext)

\* os.path.join(directory, name) for a directory and a plain component
SubDir(d, name) == Dir(d.abs, Append(d.dirs, name))

cards_output_dir == SubDir(output_folder, "cards")

get_image_path_alwaysJoin(filename, image_type) ==
    PathJoin_concat(SubDir(input_folder, image_type), filename)

get_image_path(filename, image_type) ==
    IF IsAbs(filename) THEN filename
    ELSE PathJoin(SubDir(input_folder, image_type), filename)

\* f"{os.path.splitext(name)[0]}.png"
PngName(f) == File(f.abs, f.dirs, f.stem, "png")

\* the path generate_pngs saves the card of image `f` to
OutputPath(f) == PathJoin(cards_output_dir, PngName(f))

\* values of a record's image field
ImageNames ==
    { File(FALSE, <<>>, "paris", "jpg"),
      File(FALSE, <<>>, "paris", "png"),
      File(FALSE, <<>>, "rome", "jpg"),
      File(FALSE, <<"europe">>, "oslo", "jpg"),
      File(TRUE, <<"photos">>, "lima", "jpg") }

\* a record as generate_pngs sees it: its image field, if any, and whether
\* the file the field names can be opened
PngRecords ==
    {[image |-> <<>>, loads |-> FALSE]}
        \cup {[image |-> <<f>>, loads |-> b] : f \in ImageNames, b \in BOOLEAN}

PngDecks == UNION {[1..n -> PngRecords] : n \in 0..MaxPngDeck}

\* the directory of a path exists when the constructor made it (line 26) or
\* a file was written into it before; otherwise it may or may not exist
DirOf(f) == Dir(f.abs, f.dirs)

DirMayBeMissing(f) ==
    /\ DirOf(f) # cards_output_dir
    /\ \A g \in png_files : DirOf(g) # DirOf(f)

InitPng ==
    /\ PdfIdle
    /\ FitIdle
    /\ CardIdle
    /\ PanelIdle
    /\ png_deck \in PngDecks
    /\ png_idx = 0
    /\ png_files = {}
    /\ png_log = <<>>
    /\ png_pc = "loop"

\* what one iteration does before it saves: the canvas it creates, the
\* draw_card call and, inside it, the path the panel is loaded from
Rendered(r) ==
    [pagesize |-> <<card_width, card_height>>,
     origin |-> <<0, 0>>,
     cards |-> 1,
     image |-> r.image,
     resolved |-> IF r.image # <<>>
                  THEN <<get_image_path(r.image[1], "landscapes")>>
                  ELSE <<>>,
     panel |-> r.image # <<>> /\ r.loads]

\* one iteration of `for card_data in cards_data`
PngCard ==
    /\ png_pc = "loop"
    /\ png_idx < Len(png_deck)
    /\ LET r == png_deck[png_idx + 1]
       IN  IF r.image = <<>>
           THEN /\ png_log' = Append(png_log,
                        [rendered |-> Rendered(r), output |-> <<>>])
                /\ png_idx' = png_idx + 1
                /\ UNCHANGED <<png_files, png_pc>>
           ELSE LET out == OutputPath(r.image[1])
                IN  \E missing \in (IF DirMayBeMissing(out)
                                    THEN BOOLEAN ELSE {FALSE}) :
                        IF missing
                        THEN /\ png_pc' = "failed"
                             /\ png_log' = Append(png_log,
                                    [rendered |-> Rendered(r), output |-> <<>>])
                             /\ UNCHANGED <<png_idx, png_files>>
                        ELSE /\ png_files' = png_files \cup {out}
                             /\ png_log' = Append(png_log,
                                    [rendered |-> Rendered(r), output |-> <<out>>])
                             /\ png_idx' = png_idx + 1
                             /\ UNCHANGED png_pc
    /\ UNCHANGED <<png_deck, pdf_vars, fit_vars, card_vars, panel_vars>>

\* the loop is exhausted: generate_pngs returns
PngReturn ==
    /\ png_pc = "loop"
    /\ png_idx = Len(png_deck)
    /\ png_pc' = "done"
    /\ UNCHANGED <<png_deck, png_idx, png_files, png_log, pdf_vars, fit_vars,
                   card_vars, panel_vars>>

NextPng == PngCard \/ PngReturn

SpecPng == InitPng /\ [][NextPng]_vars

----------------------------------------------------------------------------
\* C21: generate_pngs writes exactly one image file per record, so that a
\* deck of N records leaves N files, each named after the base name of the
\* record's main image and each rendered alone at origin (0, 0) on a page of
\* exactly card_width x card_height.
C21_OneFilePerRecord ==
    png_pc = "done" =>
        /\ Len(png_log) = Len(png_deck)
        /\ Cardinality(png_files) = Len(png_deck)
        /\ \A i \in 1..Len(png_log) :
              /\ png_log[i].rendered.pagesize = <<card_width, card_height>>
              /\ png_log[i].rendered.origin = <<0, 0>>
              /\ png_log[i].rendered.cards = 1
              /\ png_log[i].output # <<>>
              /\ png_deck[i].image # <<>> =>
                    png_log[i].output[1].stem = png_deck[i].image[1].stem

\* the categories draw_card asks get_image_path for
ImageTypes == {"landscapes", "flags", "continents", "transport_icons"}

\* C22: get_image_path(name, category) is name itself when name is absolute
\* and input_folder/category/name otherwise; it yields a path for every
\* name, whether or not a file exists there, and touches no file.
C22_GetImagePath ==
    /\ \A f \in ImageNames, t \in ImageTypes :
          get_image_path(f, t) =
              IF f.abs THEN f
              ELSE [abs |-> FALSE, dirs |-> <<"input", t>> \o f.dirs,
                    stem |-> f.stem, ext |-> f.ext]
    /\ \A i \in 1..Len(png_log) :
          LET r == png_deck[i]
              got == png_log[i].rendered.resolved
          IN  /\ r.image = <<>> => got = <<>>
              /\ r.image # <<>> =>
                    /\ Len(got) = 1
                    /\ r.image[1].abs => got[1] = r.image[1]
                    /\ ~r.image[1].abs =>
                          got[1] = [abs |-> FALSE,
                                    dirs |-> <<"input", "landscapes">>
                                                \o r.image[1].dirs,
                                    stem |-> r.image[1].stem,
                                    ext |-> r.image[1].ext]
                    /\ got[1] \notin png_files

C22_Witness ==
    /\ png_pc = "done"
    /\ Len(png_log) = 3
    /\ png_deck[1].image # <<>> /\ png_deck[1].image[1].abs
    /\ ~png_deck[1].loads
    /\ png_log[1].rendered.resolved = png_deck[1].image
    /\ png_deck[2].image # <<>> /\ png_deck[2].image[1].dirs = <<"europe">>
    /\ png_log[2].rendered.resolved[1].dirs = <<"input", "landscapes", "europe">>
    /\ png_deck[3].image # <<>> /\ png_deck[3].image[1].dirs = <<>>
    /\ ~png_deck[3].loads
    /\ png_log[3].rendered.resolved[1].dirs = <<"input", "landscapes">>

\* C27: every file generate_pngs writes lies directly inside the cards
\* output directory output_folder/cards, whatever image value the record
\* carries (absolute paths and names with directories included).
C27_WritesInsideCardsDir ==
    \A f \in png_files :
        /\ ~f.abs
        /\ f.dirs = <<"output", "cards">>

----------------------------------------------------------------------------
(* create_rounded_corner_image: the panel compositor, followed at one      *)
(* pixel of the resized image.  Lengths are in the units of pt; pixel      *)
(* coordinates and alpha values (0..255) are plain integers.               *)

corner_radius == 10 * mm

\* the claimed conversion: nearest integer to v * 300 / 72 points
ToPixels_round(v) ==
    (2 * v * (300 \div 12) + (72 \div 12) * pt) \div (2 * (72 \div 12) * pt)

\* int(v * dpi_multiplier) with dpi_multiplier = 300 / 72: truncation
ToPixels(v) == (v * (300 \div 12)) \div ((72 \div 12) * pt)

target_width == ToPixels(img_width)

target_height == ToPixels(img_height)

radius == ToPixels(corner_radius)

\* modes a source file can open in, and the alpha an RGBA source has at the
\* pixel followed once it is resized
SourceModes == {"RGB", "RGBA", "P"}

SourceAlphas(m) == IF m = "RGBA" THEN {0, 128, 255} ELSE {255}

\* lines 80-81: anything but RGB and RGBA is converted to RGB
ModeAfterLoad(m) == IF m \notin {"RGB", "RGBA"} THEN "RGB" ELSE m

\* lines 94-95: an image that is not RGBA yet gets an opaque alpha channel
AlphaBeforeMask(m, a) == IF ModeAfterLoad(m) # "RGBA" THEN 255 ELSE a

\* draw.rectangle([x0, y0, x1, y1]): both corners are inside the rectangle
RectangleCovers(p, x0, y0, x1, y1) ==
    /\ x0 <= p[1] /\ p[1] <= x1
    /\ y0 <= p[2] /\ p[2] <= y1

EllipseCovers_centredAtOrigin(p, x0, y0, d) ==
    (2 * p[1] - 2 * x0) * (2 * p[1] - 2 * x0)
        + (2 * p[2] - 2 * y0) * (2 * p[2] - 2 * y0) <= d * d

\* draw.ellipse([x0, y0, x0 + d, y0 + d]): the disc inscribed in the box
EllipseCovers(p, x0, y0, d) ==
    (2 * p[1] - (2 * x0 + d)) * (2 * p[1] - (2 * x0 + d))
        + (2 * p[2] - (2 * y0 + d)) * (2 * p[2] - (2 * y0 + d)) <= d * d

\* the mask at pixel p: white, then the black square, then the white disc
MaskAt(p, r) ==
    IF EllipseCovers(p, 0, 0, r * 2) THEN 255
    ELSE IF RectangleCovers(p, 0, 0, r, r) THEN 0
    ELSE 255

\* img.putalpha(mask): the alpha band becomes the mask
PutAlpha(a, m) == m

\* the corner boxes of the resized image, where the mask is decided
CornerBox(left, top) ==
    {<<x, y>> : x \in (IF left THEN 0..radius
                       ELSE (target_width - 1 - radius)..(target_width - 1)),
                y \in (IF top THEN 0..radius
                       ELSE (target_height - 1 - radius)..(target_height - 1))}

Pixels ==
    CornerBox(TRUE, TRUE) \cup CornerBox(FALSE, TRUE)
        \cup CornerBox(TRUE, FALSE) \cup CornerBox(FALSE, FALSE)
        \cup {<<target_width \div 2, target_height \div 2>>}

InitPanel ==
    /\ PdfIdle
    /\ FitIdle
    /\ CardIdle
    /\ PngIdle
    /\ img_mode \in SourceModes
    /\ img_alpha \in SourceAlphas(img_mode)
    /\ pixel \in Pixels
    /\ img_out = <<>>
    /\ panel_pc = "open"

\* create_rounded_corner_image from Image.open to return
Compose ==
    /\ panel_pc = "open"
    /\ img_out' = <<[mode |-> "RGBA",
                     size |-> <<target_width, target_height>>,
                     radius |-> radius,
                     mask |-> MaskAt(pixel, radius),
                     alpha |-> PutAlpha(AlphaBeforeMask(img_mode, img_alpha),
                                        MaskAt(pixel, radius))]>>
    /\ panel_pc' = "done"
    /\ UNCHANGED <<img_mode, img_alpha, pixel, pdf_vars, fit_vars, card_vars,
                   png_vars>>

NextPanel == Compose

SpecPanel == InitPanel /\ [][NextPanel]_vars

----------------------------------------------------------------------------
\* t is v * 300 / 72 points rounded to the nearest integer
IsNearest(t, v) ==
    /\ 2 * v * 25 - 6 * pt <= 2 * t * 6 * pt
    /\ 2 * t * 6 * pt <= 2 * v * 25 + 6 * pt

\* t is v * 300 / 72 points with the fraction dropped
IsTruncated(t, v) ==
    /\ t * 6 * pt <= v * 25
    /\ v * 25 < (t + 1) * 6 * pt

\* C23 as stated: the panel's pixel width and height and the mask radius are
\* img_width, img_height and corner_radius times 300/72, rounded to the
\* nearest integer (8.25 cm x 5.5 cm panel, 10 mm radius).
C23_RoundedDims ==
    panel_pc = "done" =>
        /\ IsNearest(img_out[1].size[1], 825 * (cm \div 100))
        /\ IsNearest(img_out[1].size[2], 55 * (cm \div 10))
        /\ IsNearest(img_out[1].radius, 10 * mm)

\* C23 as amended: the three values are the products with the fraction
\* dropped: 974 x 649 pixels and a radius of 118 pixels; the width and the
\* radius are also the nearest integers, the height (649.6...) is not.
C23_TruncatedDims ==
    panel_pc = "done" =>
        /\ img_out[1].size = <<974, 649>>
        /\ img_out[1].radius = 118
        /\ IsTruncated(img_out[1].size[1], 825 * (cm \div 100))
        /\ IsTruncated(img_out[1].size[2], 55 * (cm \div 10))
        /\ IsTruncated(img_out[1].radius, 10 * mm)
        /\ IsNearest(img_out[1].size[1], 825 * (cm \div 100))
        /\ IsNearest(img_out[1].radius, 10 * mm)
        /\ ~IsNearest(img_out[1].size[2], 55 * (cm \div 10))

C23_Witness ==
    /\ panel_pc = "done"
    /\ img_out[1].size[2] = 649
    /\ IsNearest(650, 55 * (cm \div 10))

\* the box of side r + 1 in a corner of an image of the given size
InCorner(p, size, r, left, top) ==
    /\ IF left THEN p[1] <= r ELSE p[1] >= size[1] - 1 - r
    /\ IF top THEN p[2] <= r ELSE p[2] >= size[2] - 1 - r

\* C24: whatever the source, the mask is 0 at the top-left pixel and 255 at
\* the bottom-right pixel, and of the four corner boxes only the top-left
\* one holds a pixel whose mask is below 255.
C24_OnlyTopLeftMasked ==
    panel_pc = "done" =>
        LET o == img_out[1]
        IN  /\ o.radius > 0
            /\ pixel = <<0, 0>> => o.mask = 0
            /\ pixel = <<o.size[1] - 1, o.size[2] - 1>> => o.mask = 255
            /\ o.mask < 255 => InCorner(pixel, o.size, o.radius, TRUE, TRUE)
            /\ \/ InCorner(pixel, o.size, o.radius, FALSE, TRUE)
               \/ InCorner(pixel, o.size, o.radius, TRUE, FALSE)
               \/ InCorner(pixel, o.size, o.radius, FALSE, FALSE)
               => o.mask = 255

C24_Witness ==
    /\ panel_pc = "done"
    /\ img_mode = "RGBA"
    /\ pixel = <<0, 0>>
    /\ img_out[1].radius = 118
    /\ img_out[1].mask = 0

\* C25: for an RGBA source the final alpha is source alpha * mask / 255, so
\* a transparent source pixel stays transparent; for a source without alpha
\* the final alpha is the mask.
C25_AlphaMultiplied ==
    panel_pc = "done" =>
        /\ img_mode = "RGBA" =>
              img_out[1].alpha = (img_alpha * img_out[1].mask) \div 255
        /\ img_mode # "RGBA" => img_out[1].alpha = img_out[1].mask

====
